---- MODULE Spec2Model ----
(***************************************************************************)
(* Model of the che-theia ports plugin (ports-plugin.ts): the open-port    *)
(* policy (onOpenPort), the redirect negotiation (askRedirect), the        *)
(* closed-port trace (onClosedPort) and the start-up sequence (start).     *)
(* Every await of the TypeScript source is a suspension point: the code    *)
(* between two awaits is one atomic action, and handlers of different      *)
(* events interleave at those points only.                                 *)
(***************************************************************************)
EXTENDS Integers, Sequences, FiniteSets

\* ------------------------------------------------------------------------
\* Bounds
\* ------------------------------------------------------------------------
\* number of changes of the OS listening-socket table in one behaviour
MaxChanges == 3

\* ------------------------------------------------------------------------
\* Strings as sequences of characters
\* ------------------------------------------------------------------------
Digits == <<"0", "1", "2", "3", "4", "5", "6", "7", "8", "9">>

RECURSIVE toString(_)
\* Number.prototype.toString() of a non-negative integer: decimal digits,
\* most significant first, no leading zero.
toString(n) ==
    IF n < 10 THEN <<Digits[n + 1]>>
    ELSE toString(n \div 10) \o <<Digits[(n % 10) + 1]>>

NaN == -1

DigitValue(c) == CHOOSE d \in 0..9 : Digits[d + 1] = c

IsDigit(c) == \E d \in 0..9 : Digits[d + 1] = c

RECURSIVE ParseDigits(_, _, _)
ParseDigits(s, i, acc) ==
    IF i > Len(s) \/ ~IsDigit(s[i]) THEN acc
    ELSE ParseDigits(s, i + 1, acc * 10 + DigitValue(s[i]))

\* parseInt(s, 10) of the source: the value of the longest prefix of decimal digits, NaN
\* when the string does not start with a digit.
parseInt(s) ==
    IF Len(s) = 0 \/ ~IsDigit(s[1]) THEN NaN ELSE ParseDigits(s, 1, 0)

\* String.prototype.startsWith
StartsWith(s, prefix) ==
    /\ Len(s) >= Len(prefix)
    /\ SubSeq(s, 1, Len(prefix)) = prefix

\* ------------------------------------------------------------------------
\* Constants of the plugin
\* ------------------------------------------------------------------------
LISTEN_ALL_IPV4 == "0.0.0.0"
LISTEN_ALL_IPV6 == "::"
SERVER_REDIRECT_PATTERN ==
    <<"t", "h", "e", "i", "a", "-", "r", "e", "d", "i", "r", "e", "c", "t", "-">>

\* ------------------------------------------------------------------------
\* Inputs: the declared servers of the workspace and the observable ports
\* ------------------------------------------------------------------------
WorkspacePort(portNumber, serverName, url) ==
    [portNumber |-> portNumber, serverName |-> serverName, url |-> url]

Port(portNumber, interfaceListen) ==
    [portNumber |-> portNumber, interfaceListen |-> interfaceListen]

WebApp == WorkspacePort(toString(3000), <<"w", "e", "b", "a", "p", "p">>, "https://x/3000")
Redirect1 == WorkspacePort(toString(9000), SERVER_REDIRECT_PATTERN \o <<"1">>, "https://x/9000")
Redirect2 == WorkspacePort(toString(9001), SERVER_REDIRECT_PATTERN \o <<"2">>, "https://x/9001")
\* a name that misses the reserved prefix by its last character
NearMiss == WorkspacePort(toString(5000), SubSeq(SERVER_REDIRECT_PATTERN, 1, 14), "https://x/5000")

\* the lists getWorkspacePorts() may return; port numbers are unique in each
DeclaredLists ==
    { <<WebApp, Redirect1>>,
      <<WebApp, Redirect1, Redirect2>>,
      <<WebApp, NearMiss>> }

\* the listening endpoints the OS may report
PortUniverse ==
    << Port(3000, "0.0.0.0"),
       Port(3000, "127.0.0.1"),
       Port(9000, "::"),
       Port(9000, "127.0.0.1"),
       Port(5000, "::"),
       Port(4000, "127.0.0.1") >>

PortSet == { PortUniverse[k] : k \in 1..Len(PortUniverse) }

\* ------------------------------------------------------------------------
\* State
\* ------------------------------------------------------------------------
VARIABLES
    phase,           \* position of start(): "init", "registered", "running"
    workspacePorts,  \* let workspacePorts: WorkspacePort[]
    redirectPorts,   \* let redirectPorts: WorkspacePort[]
    listening,       \* the OS listening-socket table
    changes,         \* number of changes of the table so far
    openedPorts,     \* the detector's previous sample
    tasks,           \* the onOpenPort invocations, in order of their events
    listeners,       \* the PortRedirectListener objects started
    commands,        \* theia.commands.executeCommand calls
    console,         \* console.info lines
    fetched,         \* the settled result of getWorkspacePorts(), <<>> before
    secrets,         \* the secrets of the workspace's namespace, as listed
    calls,           \* the calls of the credentials service
    fired            \* the events fired by onDidChangePasswordEmitter

portVars == <<phase, workspacePorts, redirectPorts, listening, changes,
              openedPorts, tasks, listeners, commands, console, fetched>>

credVars == <<secrets, calls, fired>>

vars == <<phase, workspacePorts, redirectPorts, listening, changes,
          openedPorts, tasks, listeners, commands, console, fetched,
          secrets, calls, fired>>

Init ==
    /\ phase = "init"
    /\ workspacePorts = <<>>
    /\ redirectPorts = <<>>
    /\ listening = {}
    /\ changes = 0
    /\ openedPorts = {}
    /\ tasks = <<>>
    /\ listeners = <<>>
    /\ commands = <<>>
    /\ console = <<>>
    /\ fetched = <<>>
    /\ secrets = <<>>
    /\ calls = <<>>
    /\ fired = <<>>


\* ------------------------------------------------------------------------
\* Values of the handlers
\* ------------------------------------------------------------------------
\* the result of a prompt that was dismissed, and the value of a missing item
Undefined == "undefined"

\* a message of theia.window: the template of its text and what is
\* interpolated in it (numbers are interpolated in their decimal form)
Message(template, portNumber, interfaceListen, url) ==
    [template |-> template, portNumber |-> portNumber,
     interfaceListen |-> interfaceListen, url |-> url]

\* one call of showInformationMessage / showErrorMessage
Prompt(kind, message, modal, items) ==
    [kind |-> kind, message |-> message, modal |-> modal, items |-> items]

\* Array.prototype.find: the first element satisfying the test, as a
\* sequence of zero (undefined) or one element
RECURSIVE FindFrom(_, _, _)
FindFrom(list, k, portString) ==
    IF k > Len(list) THEN <<>>
    ELSE IF list[k].portNumber = portString THEN <<list[k]>>
    ELSE FindFrom(list, k + 1, portString)

\* a find that compares the declared string with the number itself: under
\* === a string never equals a number, so nothing is found
matchingWorkspacePort_NoToString(list, port) == <<>>

\* workspacePorts.find(workspacePort =>
\*     workspacePort.portNumber === port.portNumber.toString())
matchingWorkspacePort(list, port) == FindFrom(list, 1, toString(port.portNumber))

\* the interface test with === in place of !==
NotListenAll_Inverted(port) ==
    \/ port.interfaceListen = LISTEN_ALL_IPV4
    \/ port.interfaceListen = LISTEN_ALL_IPV6

\* port.interfaceListen !== LISTEN_ALL_IPV4 && port.interfaceListen !== LISTEN_ALL_IPV6
NotListenAll(port) ==
    /\ port.interfaceListen # LISTEN_ALL_IPV4
    /\ port.interfaceListen # LISTEN_ALL_IPV6

\* the reserved-name test with === in place of startsWith
IsRedirectServer_Equals(workspacePort) ==
    workspacePort.serverName = SERVER_REDIRECT_PATTERN

\* matchingWorkspacePort.serverName.startsWith(SERVER_REDIRECT_PATTERN)
IsRedirectServer(workspacePort) ==
    StartsWith(workspacePort.serverName, SERVER_REDIRECT_PATTERN)

\* a pool that is the registry itself, not its reserved entries
FilterRedirect_All(list) == list

\* workspacePorts.filter(port => port.serverName.startsWith(SERVER_REDIRECT_PATTERN))
FilterRedirect(list) == SelectSeq(list, IsRedirectServer)

\* the messages onOpenPort hands to askRedirect
InternalDesc(port) ==
    Message("internal-desc", toString(port.portNumber), port.interfaceListen, "")
InternalErr(port) ==
    Message("internal-err", toString(port.portNumber), port.interfaceListen, "")
NotExposedDesc(port) ==
    Message("not-exposed-desc", toString(port.portNumber), "", "")
NotExposedErr(port) ==
    Message("not-exposed-err", toString(port.portNumber), "", "")
ListeningMsg(workspacePort) ==
    Message("listening-external-url", workspacePort.portNumber, "", workspacePort.url)
EnabledMsg(port, workspacePort) ==
    Message("redirect-enabled", toString(port.portNumber), "", workspacePort.url)

\* the direct prompt shown without { modal: true }
DirectModal_NonBlocking == FALSE

\* the modal option of the direct prompt of onOpenPort
DirectModal == TRUE

\* the modal option of the prompts of askRedirect
RedirectModal == TRUE

\* an invocation of onOpenPort: its argument, its position, the prompts it
\* has shown, and the local workspacePort of askRedirect
Task(port, pc, prompts) ==
    [port |-> port, pc |-> pc, prompts |-> prompts, workspacePort |-> <<>>]

\* askRedirect without the test of the pool: it always prompts
askRedirectEnter_NoPoolTest(port, pool, redirectMessage, errorMessage) ==
    Task(port, "showRedirectMessage",
         <<Prompt("information", redirectMessage, RedirectModal, <<"yes">>)>>)

\* askRedirect up to its first await: the pool test and the prompt
askRedirectEnter(port, pool, redirectMessage, errorMessage) ==
    IF Len(pool) = 0
    THEN Task(port, "showErrorMessage",
              <<Prompt("error", errorMessage, RedirectModal, <<>>)>>)
    ELSE Task(port, "showRedirectMessage",
              <<Prompt("information", redirectMessage, RedirectModal, <<"yes">>)>>)

\* onOpenPort up to its first await (or to its return when it has none)
onOpenPortEnter(port, declared, pool) ==
    IF NotListenAll(port)
    THEN askRedirectEnter(port, pool, InternalDesc(port), InternalErr(port))
    ELSE LET found == matchingWorkspacePort(declared, port) IN
         IF found # <<>>
         THEN IF IsRedirectServer(found[1])
              THEN Task(port, "returned", <<>>)
              ELSE Task(port, "showOpenLink",
                        <<Prompt("information", ListeningMsg(found[1]), DirectModal,
                                 <<"Open Link">>)>>)
         ELSE askRedirectEnter(port, pool, NotExposedDesc(port), NotExposedErr(port))

\* console.info of onOpenPort and of onClosedPort; task is the invocation
\* that wrote the line (0 for onClosedPort)
OpenLine(task, port) ==
    [text |-> "is now listening", portNumber |-> toString(port.portNumber),
     interfaceListen |-> port.interfaceListen, task |-> task]
ClosedLine(port) ==
    [text |-> "is no longer listening", portNumber |-> toString(port.portNumber),
     interfaceListen |-> port.interfaceListen, task |-> 0]


\* an acceptance test that takes any answer, a dismissal included
Confirmed_Always(result) == TRUE

\* result && result.title === 'yes'
Confirmed(result) == result = "yes"

\* an 'Open Link' test that takes any answer, a dismissal included
OpenLinkSelected_Always(result) == TRUE

\* result && result.title === 'Open Link'
OpenLinkSelected(result) == result = "Open Link"

\* Array.prototype.pop: the removed element (the last one; none when the
\* array is empty) and the array it leaves; PopRest_Peek reads the entry
\* and leaves it in the array
PopValue(pool) == IF Len(pool) = 0 THEN <<>> ELSE <<pool[Len(pool)]>>
PopRest_Peek(pool) == pool
PopRest(pool) == IF Len(pool) = 0 THEN pool ELSE SubSeq(pool, 1, Len(pool) - 1)

\* new PortRedirectListener(parseInt(workspacePort.portNumber, 10),
\*                          'localhost', port.portNumber), started by task
PortRedirectListener(task, workspacePort, port) ==
    [localPort |-> parseInt(workspacePort.portNumber), remoteHost |-> "localhost",
     remotePort |-> port.portNumber, task |-> task]

\* theia.commands.executeCommand('mini-browser.openUrl', url), issued by task
OpenUrl(task, url) == [command |-> "mini-browser.openUrl", url |-> url, task |-> task]

\* what onOpenPort writes after `await askRedirect(...)` has returned: the
\* non-wildcard branch returns, the undeclared branch falls to console.info
ConsoleAfterAskRedirect(i, port, lines) ==
    IF NotListenAll(port) THEN lines ELSE Append(lines, OpenLine(i, port))

\* ------------------------------------------------------------------------
\* The environment: the OS listening-socket table changes
\* ------------------------------------------------------------------------
OsOpen(p) ==
    /\ changes < MaxChanges
    /\ p \notin listening
    /\ listening' = listening \cup {p}
    /\ changes' = changes + 1
    /\ UNCHANGED <<phase, workspacePorts, redirectPorts, openedPorts, tasks,
                   listeners, commands, console>>
    /\ UNCHANGED <<fetched, secrets, calls, fired>>

OsClose(p) ==
    /\ changes < MaxChanges
    /\ p \in listening
    /\ listening' = listening \ {p}
    /\ changes' = changes + 1
    /\ UNCHANGED <<phase, workspacePorts, redirectPorts, openedPorts, tasks,
                   listeners, commands, console>>
    /\ UNCHANGED <<fetched, secrets, calls, fired>>

\* ------------------------------------------------------------------------
\* start(): the fetch of the declared ports, the pool, the registrations
\* ------------------------------------------------------------------------
\* the results getWorkspacePorts() may settle with: a list, or a failure
FetchResults ==
    { [ok |-> TRUE, ports |-> list] : list \in DeclaredLists }
    \cup { [ok |-> FALSE, ports |-> <<>>] }

\* a start that catches the failure of the fetch and goes on without ports
Fulfilled_Swallowed(result) == TRUE

\* `await workspaceHandler.getWorkspacePorts()`: the await throws when the
\* promise is rejected, and start() has no try/catch
Fulfilled(result) == result.ok

start(result) ==
    /\ phase = "init"
    /\ fetched' = <<result>>
    /\ IF Fulfilled(result)
       THEN /\ workspacePorts' = result.ports
            /\ redirectPorts' = FilterRedirect(result.ports)
            /\ phase' = "registered"
       ELSE \* start() is rejected: nothing after line 120 runs
            /\ phase' = "failed"
            /\ UNCHANGED <<workspacePorts, redirectPorts>>
    /\ UNCHANGED <<listening, changes, openedPorts, tasks, listeners, commands,
                   console>>
    /\ UNCHANGED credVars

\* portChangesDetector.init(): the baseline sample, no event
DetectorInit ==
    /\ phase = "registered"
    /\ openedPorts' = listening
    /\ phase' = "running"
    /\ UNCHANGED <<workspacePorts, redirectPorts, listening, changes, tasks,
                   listeners, commands, console>>
    /\ UNCHANGED <<fetched, secrets, calls, fired>>

\* the ports of a set in the order of iteration of the sample
RECURSIVE InOrder(_, _)
InOrder(set, k) ==
    IF k > Len(PortUniverse) THEN <<>>
    ELSE (IF PortUniverse[k] \in set THEN <<PortUniverse[k]>> ELSE <<>>)
         \o InOrder(set, k + 1)

\* the onOpenPort invocations of the opened events, each run to its first await
RECURSIVE FireOpen(_, _, _)
FireOpen(opened, declared, pool) ==
    IF opened = <<>> THEN <<>>
    ELSE <<onOpenPortEnter(Head(opened), declared, pool)>>
         \o FireOpen(Tail(opened), declared, pool)

\* a detector that reports every port of the new sample as opened
OpenedBetween_All(S1, S2) == S2

\* the ports present now and absent before, and those present before and
\* absent now
OpenedBetween(S1, S2) == S2 \ S1
ClosedBetween(S1, S2) == S1 \ S2

\* the state a callback of the plugin can reach
PluginState ==
    [workspacePorts |-> workspacePorts, redirectPorts |-> redirectPorts,
     tasks |-> tasks, listeners |-> listeners, commands |-> commands,
     console |-> console]

\* an onClosedPort that also stops the listeners forwarding to the closed port
onClosedPort_StopsRedirect(port, s) ==
    [s EXCEPT !.console = Append(@, ClosedLine(port)),
              !.listeners = SelectSeq(@, LAMBDA l : l.remotePort # port.portNumber)]

\* onClosedPort(port): only do a trace
onClosedPort(port, s) == [s EXCEPT !.console = Append(@, ClosedLine(port))]

\* onClosedPort for each closed event
RECURSIVE FireClosed(_, _)
FireClosed(closed, s) ==
    IF closed = <<>> THEN s
    ELSE FireClosed(Tail(closed), onClosedPort(Head(closed), s))

\* portChangesDetector.check(): one sampling pass; the opened events are
\* fired first, then the closed ones
Check ==
    /\ phase = "running"
    /\ LET opened == InOrder(OpenedBetween(openedPorts, listening), 1)
           closed == InOrder(ClosedBetween(openedPorts, listening), 1)
           afterOpen ==
               [PluginState EXCEPT
                  !.tasks = @ \o FireOpen(opened, workspacePorts, redirectPorts)]
           after == FireClosed(closed, afterOpen)
       IN /\ tasks' = after.tasks
          /\ console' = after.console
          /\ workspacePorts' = after.workspacePorts
          /\ redirectPorts' = after.redirectPorts
          /\ listeners' = after.listeners
          /\ commands' = after.commands
    /\ openedPorts' = listening
    /\ UNCHANGED <<phase, listening, changes, fetched, secrets, calls, fired>>

\* ------------------------------------------------------------------------
\* The continuations of the handlers: one action per answered prompt
\* ------------------------------------------------------------------------
\* handlers made mutually exclusive: a prompt can be answered only when no
\* earlier handler is suspended
AnswerError_Exclusive(i) ==
    /\ i \in 1..Len(tasks)
    /\ tasks[i].pc = "showErrorMessage"
    /\ \A k \in 1..(i - 1) : tasks[k].pc \in {"returned", "rejected"}
    /\ tasks' = [tasks EXCEPT ![i].pc = "returned"]
    /\ console' = ConsoleAfterAskRedirect(i, tasks[i].port, console)
    /\ UNCHANGED <<phase, workspacePorts, redirectPorts, listening, changes,
                   openedPorts, listeners, commands>>
    /\ UNCHANGED <<fetched, secrets, calls, fired>>

\* showErrorMessage(errorMessage) is dismissed: askRedirect returns
AnswerError(i) ==
    /\ i \in 1..Len(tasks)
    /\ tasks[i].pc = "showErrorMessage"
    /\ tasks' = [tasks EXCEPT ![i].pc = "returned"]
    /\ console' = ConsoleAfterAskRedirect(i, tasks[i].port, console)
    /\ UNCHANGED <<phase, workspacePorts, redirectPorts, listening, changes,
                   openedPorts, listeners, commands>>
    /\ UNCHANGED <<fetched, secrets, calls, fired>>

\* showInformationMessage(redirectMessage, 'yes') is answered
AnswerRedirect(i, result) ==
    /\ i \in 1..Len(tasks)
    /\ tasks[i].pc = "showRedirectMessage"
    /\ IF Confirmed(result)
       THEN LET popped == PopValue(redirectPorts) IN
            IF popped = <<>>
            THEN \* workspacePort is undefined: workspacePort.portNumber throws
                 /\ tasks' = [tasks EXCEPT ![i].pc = "rejected"]
                 /\ redirectPorts' = PopRest(redirectPorts)
                 /\ UNCHANGED <<listeners, console>>
            ELSE /\ redirectPorts' = PopRest(redirectPorts)
                 /\ listeners' =
                        Append(listeners,
                               PortRedirectListener(i, popped[1], tasks[i].port))
                 /\ tasks' =
                        [tasks EXCEPT
                           ![i].pc = "showEnabled",
                           ![i].workspacePort = popped,
                           ![i].prompts =
                               Append(@, Prompt("information",
                                                EnabledMsg(tasks[i].port, popped[1]),
                                                RedirectModal, <<"Open Link">>))]
                 /\ UNCHANGED console
       ELSE /\ tasks' = [tasks EXCEPT ![i].pc = "returned"]
            /\ console' = ConsoleAfterAskRedirect(i, tasks[i].port, console)
            /\ UNCHANGED <<redirectPorts, listeners>>
    /\ UNCHANGED <<phase, workspacePorts, listening, changes, openedPorts, commands>>
    /\ UNCHANGED <<fetched, secrets, calls, fired>>

\* showInformationMessage('Redirect is now enabled ...', 'Open Link') is answered
AnswerEnabled(i, resultShow) ==
    /\ i \in 1..Len(tasks)
    /\ tasks[i].pc = "showEnabled"
    /\ commands' =
           IF OpenLinkSelected(resultShow)
           THEN Append(commands, OpenUrl(i, tasks[i].workspacePort[1].url))
           ELSE commands
    /\ tasks' = [tasks EXCEPT ![i].pc = "returned"]
    /\ console' = ConsoleAfterAskRedirect(i, tasks[i].port, console)
    /\ UNCHANGED <<phase, workspacePorts, redirectPorts, listening, changes,
                   openedPorts, listeners>>
    /\ UNCHANGED <<fetched, secrets, calls, fired>>

\* showInformationMessage('A process is now listening ...', 'Open Link') is answered
AnswerOpenLink(i, result) ==
    /\ i \in 1..Len(tasks)
    /\ tasks[i].pc = "showOpenLink"
    /\ commands' =
           IF OpenLinkSelected(result)
           THEN Append(commands,
                       OpenUrl(i, matchingWorkspacePort(workspacePorts, tasks[i].port)[1].url))
           ELSE commands
    /\ tasks' = [tasks EXCEPT ![i].pc = "returned"]
    /\ console' = Append(console, OpenLine(i, tasks[i].port))
    /\ UNCHANGED <<phase, workspacePorts, redirectPorts, listening, changes,
                   openedPorts, listeners>>
    /\ UNCHANGED <<fetched, secrets, calls, fired>>

TaskIds == 1..(MaxChanges + 1)

Next ==
    \/ \E p \in PortSet : OsOpen(p)
    \/ \E p \in PortSet : OsClose(p)
    \/ \E result \in FetchResults : start(result)
    \/ DetectorInit
    \/ Check
    \/ \E i \in TaskIds : AnswerError(i)
    \/ \E i \in TaskIds, result \in {"yes", Undefined} : AnswerRedirect(i, result)
    \/ \E i \in TaskIds, resultShow \in {"Open Link", Undefined} : AnswerEnabled(i, resultShow)
    \/ \E i \in TaskIds, result \in {"Open Link", Undefined} : AnswerOpenLink(i, result)

Spec == Init /\ [][Next]_vars


\* ------------------------------------------------------------------------
\* Vocabulary of the properties
\* ------------------------------------------------------------------------
Wildcard(port) == port.interfaceListen \in {"0.0.0.0", "::"}

\* the declared entries whose port number is the decimal form of the port's
DeclaredFor(port) ==
    { k \in 1..Len(workspacePorts) :
        workspacePorts[k].portNumber = toString(port.portNumber) }

ReservedName(name) ==
    /\ Len(name) >= 15
    /\ SubSeq(name, 1, 15) = SERVER_REDIRECT_PATTERN

DeclaredReserved(port) ==
    \E k \in DeclaredFor(port) : ReservedName(workspacePorts[k].serverName)

DeclaredNotReserved(port) ==
    /\ DeclaredFor(port) # {}
    /\ \A k \in DeclaredFor(port) : ~ReservedName(workspacePorts[k].serverName)

RedirectTemplates ==
    {"internal-desc", "internal-err", "not-exposed-desc", "not-exposed-err",
     "redirect-enabled"}

ShownTemplates(task) ==
    { task.prompts[k].message.template : k \in 1..Len(task.prompts) }

ListenersOf(i) == { k \in 1..Len(listeners) : listeners[k].task = i }

\* ------------------------------------------------------------------------
\* C1: a confirmed redirect acceptance never pops from an empty pool: no
\* handler ends with the TypeError of an undefined pool entry, because the
\* pool test and the pop are not separated by a suspension point.
\* ------------------------------------------------------------------------
C1_NeverPopsEmptyPool ==
    \A i \in 1..Len(tasks) : tasks[i].pc # "rejected"

\* ------------------------------------------------------------------------
\* C2: the pool shrinks by exactly one on every confirmed ('yes') redirect
\* acceptance, and is unchanged when the prompt is declined and when the
\* pool-exhausted error message is dismissed.
\* ------------------------------------------------------------------------
C2_PoolShrinksByOnePerAcceptance ==
    [][ \A i \in TaskIds :
          /\ AnswerRedirect(i, "yes") =>
                Len(redirectPorts') = Len(redirectPorts) - 1
          /\ AnswerRedirect(i, Undefined) => redirectPorts' = redirectPorts
          /\ AnswerError(i) => redirectPorts' = redirectPorts ]_vars


\* ------------------------------------------------------------------------
\* C3: a handler of a port bound to a non-wildcard interface takes the
\* redirect path (its first prompt is askRedirect's, with the messages of
\* the internal-interface branch) and never shows the direct
\* 'A process is now listening ... External URL' prompt, declared or not.
\* ------------------------------------------------------------------------
C3_NonWildcardTakesRedirectPath ==
    \A i \in 1..Len(tasks) :
        ~Wildcard(tasks[i].port) =>
            /\ tasks[i].prompts # <<>>
            /\ tasks[i].prompts[1].message \in
                   { InternalDesc(tasks[i].port), InternalErr(tasks[i].port) }
            /\ "listening-external-url" \notin ShownTemplates(tasks[i])
            /\ tasks[i].pc # "showOpenLink"

\* a declared, non-reserved port on a non-wildcard interface is offered a redirect
C3_Witness ==
    \E i \in 1..Len(tasks) :
        /\ ~Wildcard(tasks[i].port)
        /\ DeclaredNotReserved(tasks[i].port)
        /\ tasks[i].pc = "showRedirectMessage"

\* ------------------------------------------------------------------------
\* C4 (as stated): a handler of a port that matches a declared port with a
\* reserved server name shows no prompt, for any bind interface.
\* ------------------------------------------------------------------------
C4_ReservedNeverPrompts ==
    \A i \in 1..Len(tasks) :
        DeclaredReserved(tasks[i].port) => tasks[i].prompts = <<>>

\* C4 (amended): a handler of a port on a wildcard interface that matches a
\* declared port with a reserved server name shows no prompt and returns at
\* once, whatever the pool holds.
C4_ReservedWildcardNeverPrompts ==
    \A i \in 1..Len(tasks) :
        (Wildcard(tasks[i].port) /\ DeclaredReserved(tasks[i].port)) =>
            /\ tasks[i].prompts = <<>>
            /\ tasks[i].pc = "returned"

\* a reserved port opened on a wildcard interface has been handled
C4_Witness ==
    \E i \in 1..Len(tasks) :
        /\ Wildcard(tasks[i].port)
        /\ DeclaredReserved(tasks[i].port)
        /\ tasks[i].pc = "returned"

\* ------------------------------------------------------------------------
\* C5: a handler of a port on a wildcard interface that matches a declared,
\* non-reserved port shows exactly the direct open-link prompt, carrying the
\* port number and the URL of the declared entry; it allocates nothing and
\* starts no listener, and none of its steps changes the pool or the
\* listeners, whatever the user answers.
\* ------------------------------------------------------------------------
DirectCase(port) == Wildcard(port) /\ DeclaredNotReserved(port)

C5_DirectPromptState ==
    \A i \in 1..Len(tasks) :
        DirectCase(tasks[i].port) =>
            /\ Len(tasks[i].prompts) = 1
            /\ tasks[i].prompts[1].kind = "information"
            /\ tasks[i].prompts[1].items = <<"Open Link">>
            /\ tasks[i].prompts[1].message.template = "listening-external-url"
            /\ \E k \in DeclaredFor(tasks[i].port) :
                  /\ tasks[i].prompts[1].message.url = workspacePorts[k].url
                  /\ tasks[i].prompts[1].message.portNumber = workspacePorts[k].portNumber
            /\ tasks[i].workspacePort = <<>>
            /\ ListenersOf(i) = {}
            /\ tasks[i].pc \in {"showOpenLink", "returned"}

C5_DirectPromptNoPoolMutation ==
    /\ []C5_DirectPromptState
    /\ [][ \A i \in 1..Len(tasks') :
             (/\ DirectCase(tasks'[i].port)
              /\ (i > Len(tasks) \/ tasks[i] # tasks'[i]))
             => (redirectPorts' = redirectPorts /\ listeners' = listeners) ]_vars

\* the direct prompt has been answered with 'Open Link' while the pool holds an entry
C5_Witness ==
    \E i \in 1..Len(tasks) :
        /\ DirectCase(tasks[i].port)
        /\ tasks[i].pc = "returned"
        /\ \E k \in 1..Len(commands) : commands[k].task = i
        /\ redirectPorts # <<>>


\* ------------------------------------------------------------------------
\* C6: when the user accepts the redirect offered for an undeclared port P
\* on a wildcard interface, exactly one pool entry Q is removed and exactly
\* one listener is started, on Q's port number, forwarding to localhost:P.
\* ------------------------------------------------------------------------
UndeclaredCase(port) == Wildcard(port) /\ DeclaredFor(port) = {}

C6_AcceptAllocatesAndListens ==
    [][ \A i \in 1..Len(tasks) :
          (/\ UndeclaredCase(tasks[i].port)
           /\ tasks[i].prompts[1].message = NotExposedDesc(tasks[i].port)
           /\ AnswerRedirect(i, "yes"))
          => \E q \in 1..Len(redirectPorts) :
                /\ Len(redirectPorts') = Len(redirectPorts) - 1
                /\ \A k \in 1..Len(redirectPorts') : redirectPorts'[k] # redirectPorts[q]
                /\ Len(listeners') = Len(listeners) + 1
                /\ SubSeq(listeners', 1, Len(listeners)) = listeners
                /\ toString(listeners'[Len(listeners')].localPort)
                       = redirectPorts[q].portNumber
                /\ listeners'[Len(listeners')].remoteHost = "localhost"
                /\ listeners'[Len(listeners')].remotePort = tasks[i].port.portNumber ]_vars

\* ------------------------------------------------------------------------
\* C7: when a redirect is needed (non-wildcard interface, or undeclared
\* port) and the pool is empty at that moment, the handler shows the error
\* message of its branch as a modal message and nothing else: no redirect
\* prompt, no allocation, no listener; and answering it changes neither the
\* pool nor the listeners.
\* ------------------------------------------------------------------------
RedirectNeeded(port) == ~Wildcard(port) \/ DeclaredFor(port) = {}

ErrorOf(port) == IF Wildcard(port) THEN NotExposedErr(port) ELSE InternalErr(port)

ExhaustedOutcome(i) ==
    /\ tasks[i].prompts =
           <<[kind |-> "error", message |-> ErrorOf(tasks[i].port),
              modal |-> TRUE, items |-> <<>>]>>
    /\ tasks[i].workspacePort = <<>>
    /\ ListenersOf(i) = {}
    /\ tasks[i].pc \in {"showErrorMessage", "returned"}

C7_ExhaustedState ==
    \A i \in 1..Len(tasks) :
        (tasks[i].pc = "showErrorMessage" \/ "error" \in
            { tasks[i].prompts[k].kind : k \in 1..Len(tasks[i].prompts) })
        => ExhaustedOutcome(i)

C7_EmptyPoolReportsError ==
    /\ []C7_ExhaustedState
    /\ [][ \A i \in 1..Len(tasks') :
             /\ (/\ i > Len(tasks)
                 /\ RedirectNeeded(tasks'[i].port)
                 /\ redirectPorts = <<>>)
                => tasks'[i].pc = "showErrorMessage"
             /\ (i <= Len(tasks) /\ tasks[i].pc = "showErrorMessage"
                 /\ tasks'[i] # tasks[i])
                => (/\ tasks'[i].pc = "returned"
                    /\ redirectPorts' = redirectPorts
                    /\ listeners' = listeners
                    /\ commands' = commands) ]_vars

\* both branches have reported an exhausted pool (after the pool was drained
\* by an accepted redirect), and one of the reports has been dismissed
C7_Witness ==
    /\ listeners # <<>>
    /\ \E i, j \in 1..Len(tasks) :
          /\ tasks[i].prompts # <<>> /\ tasks[i].prompts[1].message.template = "internal-err"
          /\ tasks[j].prompts # <<>> /\ tasks[j].prompts[1].message.template = "not-exposed-err"
          /\ tasks[i].pc = "returned"

\* ------------------------------------------------------------------------
\* C8: when the first redirect prompt is dismissed (answered with anything
\* but 'yes'), askRedirect returns: the pool, the listeners and the issued
\* commands are unchanged, and no follow-up prompt is shown.
\* ------------------------------------------------------------------------
C8_DeclineChangesNothing ==
    [][ \A i \in TaskIds :
          AnswerRedirect(i, Undefined) =>
             /\ redirectPorts' = redirectPorts
             /\ listeners' = listeners
             /\ commands' = commands
             /\ tasks'[i].prompts = tasks[i].prompts
             /\ tasks'[i].workspacePort = <<>>
             /\ tasks'[i].pc = "returned" ]_vars

\* a redirect offer has been declined while the pool holds an entry
C8_Witness ==
    \E i \in 1..Len(tasks) :
        /\ tasks[i].pc = "returned"
        /\ Len(tasks[i].prompts) = 1
        /\ tasks[i].prompts[1].items = <<"yes">>
        /\ redirectPorts # <<>>
        /\ listeners = <<>>

\* ------------------------------------------------------------------------
\* C9: every completed handling of an open-port event has written the trace
\* 'The port ... is now listening on interface ...'.
\* ------------------------------------------------------------------------
C9_EveryCompletedHandlingTraces ==
    \A i \in 1..Len(tasks) :
        tasks[i].pc = "returned" =>
            \E k \in 1..Len(console) :
                /\ console[k].task = i
                /\ console[k].text = "is now listening"
                /\ console[k].portNumber = toString(tasks[i].port.portNumber)
                /\ console[k].interfaceListen = tasks[i].port.interfaceListen

\* ------------------------------------------------------------------------
\* C10 (as stated): every prompt of the redirect paths is modal, and the
\* direct prompt of a declared, non-reserved port is not modal.
\* ------------------------------------------------------------------------
C10_RedirectModalDirectNonBlocking ==
    \A i \in 1..Len(tasks) : \A k \in 1..Len(tasks[i].prompts) :
        /\ tasks[i].prompts[k].message.template \in RedirectTemplates
              => tasks[i].prompts[k].modal = TRUE
        /\ tasks[i].prompts[k].message.template = "listening-external-url"
              => tasks[i].prompts[k].modal = FALSE

\* C10 (amended): every prompt is modal: those of the redirect paths and
\* the direct prompt of a declared, non-reserved port alike.
C10_EveryPromptModal ==
    \A i \in 1..Len(tasks) : \A k \in 1..Len(tasks[i].prompts) :
        /\ tasks[i].prompts[k].message.template
               \in RedirectTemplates \cup {"listening-external-url"}
        /\ tasks[i].prompts[k].modal = TRUE

\* a direct prompt and the follow-up prompt of an accepted redirect have been shown
C10_Witness ==
    \E i, j \in 1..Len(tasks) :
        /\ "listening-external-url" \in ShownTemplates(tasks[i])
        /\ "redirect-enabled" \in ShownTemplates(tasks[j])


\* ------------------------------------------------------------------------
\* C11: handling the port-closed events of a sampling pass only writes one
\* 'is no longer listening' line per closed port: it creates no handler and
\* no prompt for a closed port, leaves the pool and the registry unchanged
\* and neither starts nor stops a listener, the listeners that forward to
\* the closed port included.
\* ------------------------------------------------------------------------
C11_ClosedPortOnlyTraces ==
    [][ Check =>
          LET closed == openedPorts \ listening
              opened == listening \ openedPorts
          IN /\ redirectPorts' = redirectPorts
             /\ workspacePorts' = workspacePorts
             /\ listeners' = listeners
             /\ commands' = commands
             /\ SubSeq(tasks', 1, Len(tasks)) = tasks
             /\ Len(tasks') = Len(tasks) + Cardinality(opened)
             /\ \A i \in (Len(tasks) + 1)..Len(tasks') : tasks'[i].port \in opened
             /\ SubSeq(console', 1, Len(console)) = console
             /\ Len(console') = Len(console) + Cardinality(closed)
             /\ \A p \in closed :
                   \E k \in (Len(console) + 1)..Len(console') :
                       console'[k] =
                           [text |-> "is no longer listening",
                            portNumber |-> toString(p.portNumber),
                            interfaceListen |-> p.interfaceListen, task |-> 0] ]_vars

\* a port with a redirect listener forwarding to it has closed, and the
\* listener is still there
C11_Witness ==
    \E l \in 1..Len(listeners), k \in 1..Len(console) :
        /\ console[k].task = 0
        /\ console[k].text = "is no longer listening"
        /\ console[k].portNumber = toString(listeners[l].remotePort)

\* ------------------------------------------------------------------------
\* C12: when the fetch of the workspace ports fails, start() is rejected
\* (the failure is neither swallowed nor retried): the session stays failed,
\* the registry and the pool stay unset, the detector takes no baseline and
\* makes no pass, and no handler, prompt, trace, command or listener occurs.
\* ------------------------------------------------------------------------
FetchFailed == fetched # <<>> /\ ~fetched[1].ok

C12_FailedStartState ==
    FetchFailed =>
        /\ phase = "failed"
        /\ workspacePorts = <<>>
        /\ redirectPorts = <<>>
        /\ openedPorts = {}
        /\ tasks = <<>>
        /\ listeners = <<>>
        /\ commands = <<>>
        /\ console = <<>>

C12_FetchFailurePropagates ==
    /\ []C12_FailedStartState
    /\ [][ FetchFailed => (fetched' = fetched /\ phase' = phase) ]_vars

\* the fetch has failed and ports have opened and closed since
C12_Witness ==
    /\ FetchFailed
    /\ phase = "failed"
    /\ listening # {}
    /\ changes = MaxChanges


\* ------------------------------------------------------------------------
\* C13: with S1 the previous sample and S2 the current one, a sampling pass
\* starts one onOpenPort handler for exactly the ports of S2 \ S1 and one
\* onClosedPort trace for exactly the ports of S1 \ S2, and S2 becomes the
\* previous sample; so a pass with S2 = S1 fires nothing. No other step
\* fires an event: not the baseline of init, not an answered prompt.
\* ------------------------------------------------------------------------
NewOpenEvents == { i \in 1..Len(tasks') : i > Len(tasks) }

NewClosedEvents == { k \in 1..Len(console') : k > Len(console) /\ console'[k].task = 0 }

C13_CheckFiresSymmetricDifference ==
    [][ IF Check
        THEN /\ { tasks'[i].port : i \in NewOpenEvents } = listening \ openedPorts
             /\ Cardinality(NewOpenEvents) = Cardinality(listening \ openedPorts)
             /\ { <<console'[k].portNumber, console'[k].interfaceListen>> :
                    k \in NewClosedEvents }
                  = { <<toString(p.portNumber), p.interfaceListen>> :
                        p \in openedPorts \ listening }
             /\ Cardinality(NewClosedEvents) = Cardinality(openedPorts \ listening)
             /\ (listening = openedPorts => (tasks' = tasks /\ console' = console))
             /\ openedPorts' = listening
        ELSE /\ NewOpenEvents = {}
             /\ NewClosedEvents = {}
             /\ (DetectorInit => openedPorts' = listening) ]_vars

\* a pass has fired an opened and a closed event, and the sample has not
\* changed since
C13_Witness ==
    /\ phase = "running"
    /\ openedPorts = listening
    /\ tasks # <<>>
    /\ \E k \in 1..Len(console) : console[k].task = 0
    /\ listening # {}


\* ------------------------------------------------------------------------
\* The credentials service (CheCredentialsService) over the secrets of the
\* workspace's namespace
\* ------------------------------------------------------------------------
\* number of calls of the credentials service in one behaviour
MaxCalls == 3

\* one service name is a prefix of the other
Services == { <<"g">>, <<"g", "h">> }
Accounts == { <<"a">>, <<"b">> }
Passwords == { "p1", "p2" }

\* `${service}_${account}`
SecretName(service, account) == service \o <<"_">> \o account

\* a secret as the service creates and reads it: metadata.name, data.password
Secret(name, password) == [name |-> name, password |-> password]

HasSecret(items, name) == \E k \in 1..Len(items) : items[k].name = name

\* the order of the characters used in names (their code units)
CharOrder == <<"_", "a", "b", "g", "h">>

CharRank(ch) == CHOOSE r \in 1..Len(CharOrder) : CharOrder[r] = ch

\* name1 < name2 in the order the store lists its keys in
RECURSIVE NameLess(_, _)
NameLess(name1, name2) ==
    IF name2 = <<>> THEN FALSE
    ELSE IF name1 = <<>> THEN TRUE
    ELSE IF Head(name1) # Head(name2)
         THEN CharRank(Head(name1)) < CharRank(Head(name2))
    ELSE NameLess(Tail(name1), Tail(name2))

\* createNamespacedSecret: the list with the new secret; the store lists
\* its secrets by name
InsertSecret(items, secret) ==
    SelectSeq(items, LAMBDA x : NameLess(x.name, secret.name))
    \o <<secret>>
    \o SelectSeq(items, LAMBDA x : ~NameLess(x.name, secret.name))

\* deleteNamespacedSecret: the list without the secret of that name
RemoveNamed(items, name) == SelectSeq(items, LAMBDA x : x.name # name)

\* secrets.body.items.find(secret => ... secret.metadata.name.startsWith(service))
RECURSIVE FindSecret(_, _, _)
FindSecret(items, k, service) ==
    IF k > Len(items) THEN <<>>
    ELSE IF StartsWith(items[k].name, service) THEN <<items[k]>>
    ELSE FindSecret(items, k + 1, service)

\* getPassword(service, account) on the listed secrets
getPassword(items, service, account) ==
    LET item == FindSecret(items, 1, service) IN
    IF item # <<>> THEN item[1].password ELSE Undefined

\* findPassword(service) on the listed secrets
findPassword(items, service) ==
    LET item == FindSecret(items, 1, service) IN
    IF item # <<>> THEN item[1].password ELSE Undefined

\* String.prototype.substring(start)
Substring(str, from) == SubSeq(str, from + 1, Len(str))

\* findCredentials(service) on the listed secrets
RECURSIVE findCredentials(_, _)
findCredentials(items, service) ==
    IF items = <<>> THEN <<>>
    ELSE (IF StartsWith(Head(items).name, service)
          THEN <<[account |-> Substring(Head(items).name, Len(service) + 1),
                  password |-> Head(items).password]>>
          ELSE <<>>)
         \o findCredentials(Tail(items), service)

\* a call of the service: its arguments, its position, the response of the
\* store it awaits (ok, and the items of a list request), and what it returned
Call(op, service, account, password, ok, items) ==
    [op |-> op, service |-> service, account |-> account, password |-> password,
     pc |-> "awaitStore", ok |-> ok, items |-> items,
     result |-> "pending", credentials |-> <<>>]

\* { service, account }, fired by the call of index call
ChangeEvent(call, service, account) ==
    [service |-> service, account |-> account, call |-> call]

\* a caller awaits a call before it makes the next one
CanCall ==
    /\ Len(calls) < MaxCalls
    /\ \A i \in 1..Len(calls) : calls[i].pc = "done"

\* setPassword up to the response of createNamespacedSecret; the store
\* refuses a name that exists, and any request may fail
SetPasswordCall(service, account, password, ok) ==
    /\ CanCall
    /\ ok => ~HasSecret(secrets, SecretName(service, account))
    /\ secrets' =
           IF ok THEN InsertSecret(secrets, Secret(SecretName(service, account), password))
           ELSE secrets
    /\ calls' = Append(calls, Call("setPassword", service, account, password, ok, <<>>))
    /\ UNCHANGED fired
    /\ UNCHANGED portVars

\* deletePassword up to the response of deleteNamespacedSecret; the store
\* refuses a name that does not exist, and any request may fail
DeletePasswordCall(service, account, ok) ==
    /\ CanCall
    /\ ok => HasSecret(secrets, SecretName(service, account))
    /\ secrets' = IF ok THEN RemoveNamed(secrets, SecretName(service, account)) ELSE secrets
    /\ calls' = Append(calls, Call("deletePassword", service, account, "", ok, <<>>))
    /\ UNCHANGED fired
    /\ UNCHANGED portVars

\* getPassword, findPassword, findCredentials up to the response of
\* listNamespacedSecret
ReadCall(op, service, account, ok) ==
    /\ CanCall
    /\ op \in {"getPassword", "findPassword", "findCredentials"}
    /\ op # "getPassword" => account = <<>>
    /\ op = "getPassword" => account # <<>>
    /\ calls' = Append(calls, Call(op, service, account, "", ok,
                                   IF ok THEN secrets ELSE <<>>))
    /\ UNCHANGED <<secrets, fired>>
    /\ UNCHANGED portVars

\* a deletePassword that fires the event in a finally block
FiredAfterDelete_Finally(i, call, events) ==
    Append(events, ChangeEvent(i, call.service, call.account))

\* deletePassword after the await: fire inside the try, nothing in the catch
FiredAfterDelete(i, call, events) ==
    IF call.ok THEN Append(events, ChangeEvent(i, call.service, call.account))
    ELSE events

\* setPassword after the await: fire, unless the await has thrown
FiredAfterSet(i, call, events) ==
    IF call.ok THEN Append(events, ChangeEvent(i, call.service, call.account))
    ELSE events

\* what the call returns
ResultOf(call) ==
    IF call.op = "deletePassword" THEN (IF call.ok THEN "true" ELSE "false")
    ELSE IF ~call.ok THEN "thrown"
    ELSE IF call.op = "setPassword" THEN "void"
    ELSE IF call.op = "getPassword"
         THEN getPassword(call.items, call.service, call.account)
    ELSE IF call.op = "findPassword" THEN findPassword(call.items, call.service)
    ELSE "credentials"

\* console.error(e) in the catch of deletePassword
ErrorLine(i) ==
    [text |-> "console.error", portNumber |-> <<>>, interfaceListen |-> "",
     task |-> 0 - i]

\* the code of a call after its await
Resume(i) ==
    /\ i \in 1..Len(calls)
    /\ calls[i].pc = "awaitStore"
    /\ calls' =
           [calls EXCEPT
              ![i].pc = "done",
              ![i].result = ResultOf(calls[i]),
              ![i].credentials =
                  IF calls[i].op = "findCredentials" /\ calls[i].ok
                  THEN findCredentials(calls[i].items, calls[i].service)
                  ELSE <<>>]
    /\ fired' =
           IF calls[i].op = "setPassword" THEN FiredAfterSet(i, calls[i], fired)
           ELSE IF calls[i].op = "deletePassword" THEN FiredAfterDelete(i, calls[i], fired)
           ELSE fired
    /\ console' =
           IF calls[i].op = "deletePassword" /\ ~calls[i].ok
           THEN Append(console, ErrorLine(i))
           ELSE console
    /\ UNCHANGED secrets
    /\ UNCHANGED <<phase, workspacePorts, redirectPorts, listening, changes,
                   openedPorts, tasks, listeners, commands, fetched>>

CallIds == 1..(MaxCalls + 1)

CredNext ==
    \/ \E service \in Services, account \in Accounts, password \in Passwords,
          ok \in BOOLEAN :
          SetPasswordCall(service, account, password, ok)
    \/ \E service \in Services, account \in Accounts, ok \in BOOLEAN :
          DeletePasswordCall(service, account, ok)
    \/ \E op \in {"getPassword", "findPassword", "findCredentials"},
          service \in Services, account \in Accounts \cup {<<>>}, ok \in BOOLEAN :
          ReadCall(op, service, account, ok)
    \/ \E i \in CallIds : Resume(i)

CredSpec == Init /\ [][CredNext]_vars


\* ------------------------------------------------------------------------
\* C14: getPassword(service, account) returns the password of the secret of
\* exactly that (service, account) pair, and undefined when the listed
\* secrets hold none for the pair.
\* ------------------------------------------------------------------------
PasswordOfPair(items, service, account) ==
    IF \E k \in 1..Len(items) : items[k].name = service \o <<"_">> \o account
    THEN LET k == CHOOSE k \in 1..Len(items) :
                     items[k].name = service \o <<"_">> \o account
         IN items[k].password
    ELSE "undefined"

C14_GetPasswordOfExactPair ==
    \A i \in 1..Len(calls) :
        (calls[i].op = "getPassword" /\ calls[i].pc = "done" /\ calls[i].ok) =>
            calls[i].result =
                PasswordOfPair(calls[i].items, calls[i].service, calls[i].account)

\* ------------------------------------------------------------------------
\* C15: a setPassword or deletePassword call whose store operation succeeds
\* fires exactly one change event, carrying its service and account, after
\* the store operation (the event is fired by the code after the await, in
\* a step that leaves the store alone); a call whose store operation fails
\* fires none (deletePassword returns false, setPassword throws); and
\* getPassword, findPassword and findCredentials never fire one.
\* ------------------------------------------------------------------------
EventsOf(i) == { k \in 1..Len(fired) : fired[k].call = i }

C15_NotificationState ==
    /\ \A k \in 1..Len(fired) :
          /\ fired[k].call \in 1..Len(calls)
          /\ calls[fired[k].call].pc = "done"
          /\ calls[fired[k].call].op \in {"setPassword", "deletePassword"}
          /\ calls[fired[k].call].ok
          /\ fired[k].service = calls[fired[k].call].service
          /\ fired[k].account = calls[fired[k].call].account
    /\ \A i \in 1..Len(calls) :
          /\ calls[i].pc = "awaitStore" => EventsOf(i) = {}
          /\ calls[i].pc = "done" =>
                /\ Cardinality(EventsOf(i)) =
                       IF calls[i].op \in {"setPassword", "deletePassword"} /\ calls[i].ok
                       THEN 1 ELSE 0
                /\ calls[i].op = "deletePassword" =>
                       calls[i].result = (IF calls[i].ok THEN "true" ELSE "false")
                /\ calls[i].op = "setPassword" =>
                       calls[i].result = (IF calls[i].ok THEN "void" ELSE "thrown")

C15_MutationFiresOneNotification ==
    /\ []C15_NotificationState
    /\ [][ /\ fired' # fired =>
                (secrets' = secrets /\ Len(fired') = Len(fired) + 1
                 /\ SubSeq(fired', 1, Len(fired)) = fired)
           /\ secrets' # secrets => fired' = fired ]_vars

\* a successful setPassword has fired its event, and a refused setPassword
\* and a refused deletePassword have fired none
C15_Witness ==
    /\ Len(fired) = 1
    /\ \E i, j, k \in 1..Len(calls) :
          /\ calls[i].op = "setPassword" /\ calls[i].result = "void"
          /\ calls[j].op = "setPassword" /\ calls[j].result = "thrown"
          /\ calls[k].op = "deletePassword" /\ calls[k].result = "false"


\* ------------------------------------------------------------------------
\* C16: handlers of different open-port events do not exclude each other:
\* whatever other handlers are suspended on unanswered prompts, a suspended
\* handler can be resumed by the answer to its own prompt, and a sampling
\* pass still starts the handler of every newly opened port.
\* ------------------------------------------------------------------------
Waiting(i) ==
    tasks[i].pc \in {"showErrorMessage", "showRedirectMessage", "showEnabled",
                     "showOpenLink"}

AnswerOwnPrompt(j) ==
    \/ AnswerError(j)
    \/ AnswerRedirect(j, Undefined)
    \/ AnswerEnabled(j, Undefined)
    \/ AnswerOpenLink(j, Undefined)

C16_EveryPromptAnswerable ==
    \A j \in 1..Len(tasks) : Waiting(j) => ENABLED AnswerOwnPrompt(j)

C16_HandlersNotExclusive ==
    /\ []C16_EveryPromptAnswerable
    /\ [][ (Check /\ \E i \in 1..Len(tasks) : Waiting(i)) =>
             \A p \in listening \ openedPorts :
                \E j \in (Len(tasks) + 1)..Len(tasks') :
                    /\ tasks'[j].port = p
                    /\ tasks'[j].pc \in {"showErrorMessage", "showRedirectMessage",
                                         "showOpenLink", "returned"} ]_vars

\* the handler of a later event has shown its prompt and completed while
\* the handler of an earlier event is still suspended on its prompt
C16_Witness ==
    \E i, j \in 1..Len(tasks) :
        /\ i < j
        /\ Waiting(i)
        /\ tasks[j].pc = "returned"
        /\ tasks[j].prompts # <<>>

\* ------------------------------------------------------------------------
\* C17: every open-URL command was issued by a handler whose last prompt
\* offered 'Open Link' and named the command's URL (the URL of the matched
\* declared port in the direct case, of the allocated pool entry in the
\* redirect case), in the step in which that prompt was answered with
\* 'Open Link'; a dismissed prompt issues no command.
\* ------------------------------------------------------------------------
LastPrompt(task) == task.prompts[Len(task.prompts)]

C17_CommandState ==
    \A k \in 1..Len(commands) :
        LET i == commands[k].task IN
        /\ commands[k].command = "mini-browser.openUrl"
        /\ i \in 1..Len(tasks)
        /\ tasks[i].pc = "returned"
        /\ LastPrompt(tasks[i]).items = <<"Open Link">>
        /\ LastPrompt(tasks[i]).message.url = commands[k].url
        /\ \A k2 \in 1..Len(commands) : commands[k2].task = i => k2 = k
        /\ IF tasks[i].workspacePort # <<>>
           THEN commands[k].url = tasks[i].workspacePort[1].url
           ELSE /\ DirectCase(tasks[i].port)
                /\ \E q \in DeclaredFor(tasks[i].port) :
                      commands[k].url = workspacePorts[q].url

C17_OpenUrlOnlyOnOpenLink ==
    /\ []C17_CommandState
    /\ [][ /\ commands' # commands =>
                \E i \in 1..Len(tasks) :
                    /\ Len(commands') = Len(commands) + 1
                    /\ commands'[Len(commands')].task = i
                    /\ (AnswerEnabled(i, "Open Link") \/ AnswerOpenLink(i, "Open Link"))
           /\ \A i \in 1..Len(tasks) :
                (\/ AnswerEnabled(i, Undefined)
                 \/ AnswerOpenLink(i, Undefined)
                 \/ AnswerRedirect(i, Undefined)
                 \/ AnswerError(i)) => commands' = commands ]_vars

\* a direct prompt and a redirect follow-up prompt have both been answered
\* with 'Open Link'
C17_Witness ==
    \E k1, k2 \in 1..Len(commands) :
        /\ tasks[commands[k1].task].workspacePort = <<>>
        /\ tasks[commands[k2].task].workspacePort # <<>>

\* ------------------------------------------------------------------------
\* C18: the k-th redirect listener is started on the k-th reserved entry of
\* the declared list, in declaration order.
\* ------------------------------------------------------------------------
ReservedEntries ==
    SelectSeq(workspacePorts, LAMBDA w : ReservedName(w.serverName))

C18_AllocatesInDeclarationOrder ==
    \A k \in 1..Len(listeners) :
        /\ k <= Len(ReservedEntries)
        /\ toString(listeners[k].localPort) = ReservedEntries[k].portNumber

\* ------------------------------------------------------------------------
\* C19: once start() has fetched it, the registry is the fetched list in
\* every state; every pool entry is a reserved entry of the registry; and
\* an allocated entry has left the pool and is still in the registry, where
\* the lookup by its port number finds it.
\* ------------------------------------------------------------------------
InRegistry(entry) == \E k \in 1..Len(workspacePorts) : workspacePorts[k] = entry

InPool(entry) == \E k \in 1..Len(redirectPorts) : redirectPorts[k] = entry

C19_RegistryNeverMutated ==
    /\ phase \in {"init", "failed"} => workspacePorts = <<>>
    /\ phase \in {"registered", "running"} =>
          /\ fetched # <<>>
          /\ workspacePorts = fetched[1].ports
    /\ \A k \in 1..Len(redirectPorts) :
          /\ InRegistry(redirectPorts[k])
          /\ ReservedName(redirectPorts[k].serverName)
    /\ \A i \in 1..Len(tasks) :
          tasks[i].workspacePort # <<>> =>
             /\ InRegistry(tasks[i].workspacePort[1])
             /\ ~InPool(tasks[i].workspacePort[1])
             /\ \E k \in 1..Len(workspacePorts) :
                   /\ workspacePorts[k].portNumber = tasks[i].workspacePort[1].portNumber
                   /\ \A k2 \in 1..(k - 1) :
                         workspacePorts[k2].portNumber # workspacePorts[k].portNumber
                   /\ workspacePorts[k] = tasks[i].workspacePort[1]

\* an entry has been allocated and another is still in the pool
C19_Witness ==
    /\ redirectPorts # <<>>
    /\ \E i \in 1..Len(tasks) : tasks[i].workspacePort # <<>>

\* ------------------------------------------------------------------------
\* C20: in every state after start-up, the number of redirect listeners
\* plus the size of the pool is the number of reserved entries of the
\* registry, and no two listeners are bound to the same local port.
\* ------------------------------------------------------------------------
C20_ListenersPlusPoolConstant ==
    /\ phase \in {"registered", "running"} =>
          Len(listeners) + Len(redirectPorts) = Len(ReservedEntries)
    /\ phase \in {"init", "failed"} => listeners = <<>>
    /\ \A k1, k2 \in 1..Len(listeners) :
          listeners[k1].localPort = listeners[k2].localPort => k1 = k2

\* two listeners have been started, and a third acceptance found the pool empty
C20_Witness ==
    /\ Len(listeners) = 2
    /\ \E i \in 1..Len(tasks) : tasks[i].pc = "rejected"

====
